---- MODULE Spec2Model ----
(***************************************************************************)
(* ARP spoof detection simulator (src/sdn.py).                             *)
(*                                                                         *)
(* The module models the class SimpleController (the address table, the    *)
(* blocked set, the event log, block_on_detect) and the Streamlit script   *)
(* that drives it: one run of the script per operator interaction, with    *)
(* the session state kept between the runs.                                *)
(*                                                                         *)
(* Specifications:                                                         *)
(*   SpecCtrl  the controller used through its methods, with any call      *)
(*             sequence of receive_arp / block_mac / block_on_detect = b;  *)
(*   Spec      the dashboard script, refresh after refresh;                *)
(*   SpecSteps the script under an operator who keeps pressing Step in     *)
(*             random mode, with fairness of the spoof branch;             *)
(*   SpecRun   the script under an operator who presses Run, the loop not  *)
(*             cut short, with fairness of the script's own steps;         *)
(*   SpecFew   the script with a roster of fewer than two hosts;           *)
(*   SpecMac   the utility random_mac, one call.                           *)
(*                                                                         *)
(* A log line is the record of the values the f-string interpolates; the   *)
(* wall-clock prefix [HH:MM:SS] of a line is not modelled (no claim reads  *)
(* it).  The dict arp_table is modelled as a function: its insertion order *)
(* is visible only in the rendered table.                                  *)
(***************************************************************************)
EXTENDS Integers, Sequences, FiniteSets, TLC

VARIABLES
    ctrl,           \* st.session_state.ctrl: the SimpleController
    hosts,          \* st.session_state.hosts: sequence of <<ip, mac>>
    started,        \* st.session_state.started
    session_keys,   \* the keys present in st.session_state
    mode,           \* sidebar: selectbox "Mode"
    hosts_count,    \* sidebar: slider "Number of hosts"
    spoof_chance,   \* sidebar: slider "Spoof chance", in hundredths
    block_on_detect,\* sidebar: checkbox "Auto-block attacker MACs on detect"
    run,            \* sidebar: button "Run simulation"
    step,           \* sidebar: button "Step one event"
    reset,          \* sidebar: button "Reset"
    pc,             \* the script's position in the current refresh
    elapsed,        \* time.time() - start inside the Run loop
    hist            \* history: one record per one_event call of the session

vars == <<ctrl, hosts, started, session_keys, mode, hosts_count, spoof_chance,
          block_on_detect, run, step, reset, pc, elapsed, hist>>

(***************************************************************************)
(* Bounds of the model.                                                    *)
(***************************************************************************)
\* one_event is called at most MaxEvents times in a session
MaxEvents == 2
\* the controller API specification stops calling once the log holds MaxCtrlLog lines
MaxCtrlLog == 4
\* one Run-loop iteration advances the clock by 1..MaxTick seconds
MaxTick == 2

(***************************************************************************)
(* Program constants.                                                      *)
(***************************************************************************)
MinHosts == 2
BasicDuration == 2
RandomDuration == 6

\* f"10.0.0.{i}"
IP(i) == "10.0.0." \o ToString(i)

\* slider values explored (the slider allows MinHosts..10)
HostCounts == {MinHosts, MinHosts + 1}

\* the outcomes explored for the random address of host i, line 86: the
\* second host may draw the address of the first
HostMacs(i) ==
    IF i = 1 THEN {"02:00:00:00:00:02"}
    ELSE IF i = 2 THEN {"02:00:00:00:00:01", "02:00:00:00:00:02"}
    ELSE {"02:00:00:00:00:03"}

\* the rosters' addresses explored for n hosts
MacDraws(n) ==
    {f \in [1..n -> UNION {HostMacs(i) : i \in 1..n}] :
        \A i \in 1..n : f[i] \in HostMacs(i)}
\* the outcome explored for the random attacker address of line 170
RandomAttackerMacs == {"de:ad:be:ef:00:01"}
BasicAttackerMac == "aa:aa:aa:aa:aa:aa"

Modes == {"basic", "random"}
\* slider values explored, in hundredths (the slider allows 0..70)
SpoofChances == {0, 15}
\* outcomes explored for random.random(), in hundredths (the range is [0, 1))
RandomDraws == {5, 50}

NoVal == "-"

\* A log line: the level and the values its message interpolates.
Line(lvl, ip, old, mac, info) ==
    [lvl |-> lvl, ip |-> ip, old |-> old, mac |-> mac, info |-> info]

\* Python's None as a return value
None == Line("None", NoVal, NoVal, NoVal, NoVal)

EmptyTable == [x \in {} |-> NoVal]

\* d[k] = v on a dict
Put(d, k, v) == [x \in (DOMAIN d) \cup {k} |-> IF x = k THEN v ELSE d[x]]

\* SimpleController.__init__
SimpleController(b) ==
    [arp_table |-> EmptyTable, blocked_macs |-> {}, block_on_detect |-> b,
     logs |-> <<>>]

\* a _log that puts the newest line first
_log_newest_first(c, line) ==
    [ctrl |-> [c EXCEPT !.logs = <<line>> \o c.logs], ret |-> line]

\* SimpleController._log: append the line, return it
_log(c, line) ==
    [ctrl |-> [c EXCEPT !.logs = Append(c.logs, line)], ret |-> line]

\* block_mac without the membership test: every call logs a MITIGATE line
block_mac_unconditional(c, mac) ==
    _log([c EXCEPT !.blocked_macs = c.blocked_macs \cup {mac}],
         Line("MITIGATE", NoVal, NoVal, mac, NoVal))

\* block_mac that logs the MITIGATE line and forgets to add the address
block_mac_forgets(c, mac) ==
    IF mac \notin c.blocked_macs
    THEN _log(c, Line("MITIGATE", NoVal, NoVal, mac, NoVal))
    ELSE [ctrl |-> c, ret |-> None]

\* SimpleController.block_mac
block_mac(c, mac) ==
    IF mac \notin c.blocked_macs
    THEN _log([c EXCEPT !.blocked_macs = c.blocked_macs \cup {mac}],
             Line("MITIGATE", NoVal, NoVal, mac, NoVal))
    ELSE [ctrl |-> c, ret |-> None]

\* receive_arp that overwrites the table entry on a conflict
receive_arp_overwrites(c, src_ip, src_mac, pkt_info) ==
    IF src_mac \in c.blocked_macs
    THEN _log(c, Line("DROP", NoVal, NoVal, src_mac, pkt_info))
    ELSE IF src_ip \in DOMAIN c.arp_table /\ c.arp_table[src_ip] # src_mac
         THEN LET old == c.arp_table[src_ip]
                  alert == _log([c EXCEPT !.arp_table =
                                     Put(c.arp_table, src_ip, src_mac)],
                                Line("ALERT", src_ip, old, src_mac, pkt_info))
              IN  IF alert.ctrl.block_on_detect
                  THEN [ctrl |-> block_mac(alert.ctrl, src_mac).ctrl,
                        ret |-> alert.ret]
                  ELSE alert
         ELSE _log([c EXCEPT !.arp_table = Put(c.arp_table, src_ip, src_mac)],
                   Line("LEARN", src_ip, NoVal, src_mac, pkt_info))

\* receive_arp that tests the blocked set only for addresses already in the
\* table: a blocked address announcing a new network address is learned
\* (or re-evaluated for a conflict)
receive_arp_late_drop(c, src_ip, src_mac, pkt_info) ==
    IF src_mac \in c.blocked_macs /\ src_ip \in DOMAIN c.arp_table
       /\ c.arp_table[src_ip] # src_mac
    THEN _log(c, Line("DROP", NoVal, NoVal, src_mac, pkt_info))
    ELSE IF src_ip \in DOMAIN c.arp_table /\ c.arp_table[src_ip] # src_mac
         THEN LET old == c.arp_table[src_ip]
                  alert == _log(c, Line("ALERT", src_ip, old, src_mac, pkt_info))
              IN  IF alert.ctrl.block_on_detect
                  THEN [ctrl |-> block_mac(alert.ctrl, src_mac).ctrl,
                        ret |-> alert.ret]
                  ELSE alert
         ELSE _log([c EXCEPT !.arp_table = Put(c.arp_table, src_ip, src_mac)],
                   Line("LEARN", src_ip, NoVal, src_mac, pkt_info))

\* receive_arp that blocks before it alerts
receive_arp_blocks_first(c, src_ip, src_mac, pkt_info) ==
    IF src_mac \in c.blocked_macs
    THEN _log(c, Line("DROP", NoVal, NoVal, src_mac, pkt_info))
    ELSE IF src_ip \in DOMAIN c.arp_table /\ c.arp_table[src_ip] # src_mac
         THEN LET old == c.arp_table[src_ip]
                  blocked == IF c.block_on_detect
                             THEN block_mac(c, src_mac).ctrl ELSE c
              IN  _log(blocked, Line("ALERT", src_ip, old, src_mac, pkt_info))
         ELSE _log([c EXCEPT !.arp_table = Put(c.arp_table, src_ip, src_mac)],
                   Line("LEARN", src_ip, NoVal, src_mac, pkt_info))

\* receive_arp that takes every announcement for a known network address as
\* a conflict, the address on file included
receive_arp_alerts_on_repeat(c, src_ip, src_mac, pkt_info) ==
    IF src_mac \in c.blocked_macs
    THEN _log(c, Line("DROP", NoVal, NoVal, src_mac, pkt_info))
    ELSE IF src_ip \in DOMAIN c.arp_table
         THEN LET old == c.arp_table[src_ip]
                  alert == _log(c, Line("ALERT", src_ip, old, src_mac, pkt_info))
              IN  IF alert.ctrl.block_on_detect
                  THEN [ctrl |-> block_mac(alert.ctrl, src_mac).ctrl,
                        ret |-> alert.ret]
                  ELSE alert
         ELSE _log([c EXCEPT !.arp_table = Put(c.arp_table, src_ip, src_mac)],
                   Line("LEARN", src_ip, NoVal, src_mac, pkt_info))

\* SimpleController.receive_arp
receive_arp(c, src_ip, src_mac, pkt_info) ==
    IF src_mac \in c.blocked_macs
    THEN _log(c, Line("DROP", NoVal, NoVal, src_mac, pkt_info))
    ELSE IF src_ip \in DOMAIN c.arp_table /\ c.arp_table[src_ip] # src_mac
         THEN LET old == c.arp_table[src_ip]
                  alert == _log(c, Line("ALERT", src_ip, old, src_mac, pkt_info))
              IN  IF alert.ctrl.block_on_detect
                  THEN [ctrl |-> block_mac(alert.ctrl, src_mac).ctrl,
                        ret |-> alert.ret]
                  ELSE alert
         ELSE _log([c EXCEPT !.arp_table = Put(c.arp_table, src_ip, src_mac)],
                  Line("LEARN", src_ip, NoVal, src_mac, pkt_info))

(***************************************************************************)
(* SpecCtrl: the controller used through its methods.                      *)
(***************************************************************************)
ApiIPs == {IP(1), IP(2)}
ApiMacs == {"02:00:00:00:00:01", "02:00:00:00:00:02", BasicAttackerMac}

InitCtrl ==
    /\ \E b \in BOOLEAN : ctrl = SimpleController(b)
    /\ hosts = <<>>
    /\ started = FALSE
    /\ session_keys = {}
    /\ mode = "basic"
    /\ hosts_count = MinHosts
    /\ spoof_chance = 0
    /\ block_on_detect = TRUE
    /\ run = FALSE
    /\ step = FALSE
    /\ reset = FALSE
    /\ pc = "api"
    /\ elapsed = 0
    /\ hist = <<>>

ApiFrame ==
    UNCHANGED <<hosts, started, session_keys, mode, hosts_count, spoof_chance,
                block_on_detect, run, step, reset, pc, elapsed, hist>>

ApiReceiveArp ==
    /\ pc = "api"
    /\ Len(ctrl.logs) < MaxCtrlLog
    /\ \E ip \in ApiIPs, mac \in ApiMacs :
          ctrl' = receive_arp(ctrl, ip, mac, "api").ctrl
    /\ ApiFrame

ApiBlockMac ==
    /\ pc = "api"
    /\ Len(ctrl.logs) < MaxCtrlLog
    /\ \E mac \in ApiMacs : ctrl' = block_mac(ctrl, mac).ctrl
    /\ ApiFrame

ApiSetBlockOnDetect ==
    /\ pc = "api"
    /\ \E b \in BOOLEAN : ctrl' = [ctrl EXCEPT !.block_on_detect = b]
    /\ ApiFrame

NextCtrl == ApiReceiveArp \/ ApiBlockMac \/ ApiSetBlockOnDetect

SpecCtrl == InitCtrl /\ [][NextCtrl]_vars

(***************************************************************************)
(* Spec: the dashboard script.  One refresh is one run of the script, top  *)
(* to bottom.  pc is the script's position: "load" (before the first run), *)
(* "buttons" (line 177), "run_loop" (line 186), "rerun" (after             *)
(* st.experimental_rerun()), "idle" (the script has ended and waits for    *)
(* the operator).  The session state is passed through the stages of the   *)
(* script as a record s.                                                   *)
(***************************************************************************)
Session ==
    [ctrl |-> ctrl, hosts |-> hosts, started |-> started,
     keys |-> session_keys, hist |-> hist]

\* lines 84-87: a roster of n hosts, macs[i] the address drawn for host i
Roster(n, macs) == [i \in 1..n |-> <<IP(i), macs[i]>>]

\* session state initialization that keeps the controller on Reset and only
\* draws a new roster
SessionInit_keeps_ctrl(s, rst, bod, n, macs) ==
    IF "ctrl" \notin s.keys
    THEN [ctrl |-> SimpleController(bod), hosts |-> Roster(n, macs),
          started |-> FALSE,
          keys |-> s.keys \cup {"ctrl", "hosts", "started", "logs_buf"},
          hist |-> <<>>]
    ELSE IF rst
         THEN [s EXCEPT !.hosts = Roster(n, macs), !.started = FALSE,
                        !.hist = <<>>]
         ELSE s

\* lines 80-89: session state initialization
SessionInit(s, rst, bod, n, macs) ==
    IF "ctrl" \notin s.keys \/ rst
    THEN [ctrl |-> SimpleController(bod), hosts |-> Roster(n, macs),
          started |-> FALSE,
          keys |-> s.keys \cup {"ctrl", "hosts", "started", "logs_buf"},
          hist |-> <<>>]
    ELSE s

\* a refresh that leaves the controller's setting as it was constructed
SyncCheckbox_skips(s, bod) == s

\* line 92: keep checkbox effect in sync
SyncCheckbox(s, bod) == [s EXCEPT !.ctrl.block_on_detect = bod]

\* lines 151-152: the hosts announced in roster order from position i on
RECURSIVE InitialArps(_, _, _)
InitialArps(c, hs, i) ==
    IF i > Len(hs) THEN c
    ELSE InitialArps(receive_arp(c, hs[i][1], hs[i][2], "initial ARP").ctrl,
                     hs, i + 1)

\* initial learning step that never sets the started flag
InitialPass_forgets_started(s) ==
    IF ~s.started
    THEN [s EXCEPT !.ctrl = InitialArps(s.ctrl, s.hosts, 1)]
    ELSE s

\* lines 150-153: initial learning step
InitialPass(s) ==
    IF ~s.started
    THEN [s EXCEPT !.ctrl = InitialArps(s.ctrl, s.hosts, 1), !.started = TRUE]
    ELSE s

\* lines 80-153: the script down to the button handling (the panels drawn at
\* lines 94-145 read the session state and leave it alone)
Prologue(s, rst, bod, n, macs) ==
    InitialPass(SyncCheckbox(SessionInit(s, rst, bod, n, macs), bod))

\* one_event whose basic mode leaves out the repeated announcement
one_event_no_repeat(c, hs, m, chance, r, v, a) ==
    IF m = "basic"
    THEN IF Len(hs) >= 2
         THEN receive_arp(c, hs[2][1], BasicAttackerMac,
                          "spoof attempt (basic)").ctrl
         ELSE c
    ELSE IF r < chance
         THEN receive_arp(c, hs[v][1], a, "random spoof").ctrl
         ELSE receive_arp(c, hs[v][1], hs[v][2], "normal ARP").ctrl

\* one_event whose basic mode takes the first host as the victim
one_event_first_host(c, hs, m, chance, r, v, a) ==
    IF m = "basic"
    THEN IF Len(hs) >= 2
         THEN LET victim_ip == hs[1][1]
                  c1 == receive_arp(c, victim_ip, BasicAttackerMac,
                                    "spoof attempt (basic)").ctrl
              IN  receive_arp(c1, victim_ip, BasicAttackerMac,
                              "spoof attempt (basic #2)").ctrl
         ELSE c
    ELSE IF r < chance
         THEN receive_arp(c, hs[v][1], a, "random spoof").ctrl
         ELSE receive_arp(c, hs[v][1], hs[v][2], "normal ARP").ctrl

\* one_event whose random mode always takes the spoof branch
one_event_always_spoofs(c, hs, m, chance, r, v, a) ==
    IF m = "basic"
    THEN IF Len(hs) >= 2
         THEN LET victim_ip == hs[2][1]
                  c1 == receive_arp(c, victim_ip, BasicAttackerMac,
                                    "spoof attempt (basic)").ctrl
              IN  receive_arp(c1, victim_ip, BasicAttackerMac,
                              "spoof attempt (basic #2)").ctrl
         ELSE c
    ELSE receive_arp(c, hs[v][1], a, "random spoof").ctrl

\* one_event whose random mode announces the genuine address on both branches
one_event_spoof_is_genuine(c, hs, m, chance, r, v, a) ==
    IF m = "basic"
    THEN IF Len(hs) >= 2
         THEN LET victim_ip == hs[2][1]
                  c1 == receive_arp(c, victim_ip, BasicAttackerMac,
                                    "spoof attempt (basic)").ctrl
              IN  receive_arp(c1, victim_ip, BasicAttackerMac,
                              "spoof attempt (basic #2)").ctrl
         ELSE c
    ELSE IF r < chance
         THEN receive_arp(c, hs[v][1], hs[v][2], "random spoof").ctrl
         ELSE receive_arp(c, hs[v][1], hs[v][2], "normal ARP").ctrl

\* one_event whose basic mode attacks the first host of a roster of one
one_event_lone_victim(c, hs, m, chance, r, v, a) ==
    IF m = "basic"
    THEN IF Len(hs) >= 1
         THEN LET victim_ip == hs[Len(hs)][1]
                  c1 == receive_arp(c, victim_ip, BasicAttackerMac,
                                    "spoof attempt (basic)").ctrl
              IN  receive_arp(c1, victim_ip, BasicAttackerMac,
                              "spoof attempt (basic #2)").ctrl
         ELSE c
    ELSE IF r < chance
         THEN receive_arp(c, hs[v][1], a, "random spoof").ctrl
         ELSE receive_arp(c, hs[v][1], hs[v][2], "normal ARP").ctrl

\* one_event whose basic attacker announces the first host's hardware address
one_event_attacker_is_host(c, hs, m, chance, r, v, a) ==
    IF m = "basic"
    THEN IF Len(hs) >= 2
         THEN LET victim_ip == hs[2][1]
                  c1 == receive_arp(c, victim_ip, hs[1][2],
                                    "spoof attempt (basic)").ctrl
              IN  receive_arp(c1, victim_ip, hs[1][2],
                              "spoof attempt (basic #2)").ctrl
         ELSE c
    ELSE IF r < chance
         THEN receive_arp(c, hs[v][1], a, "random spoof").ctrl
         ELSE receive_arp(c, hs[v][1], hs[v][2], "normal ARP").ctrl

\* one_event: m the mode, chance the spoof chance, r the value of
\* random.random(), v the index random.choice picks, a the attacker address
\* drawn in random mode
one_event(c, hs, m, chance, r, v, a) ==
    IF m = "basic"
    THEN IF Len(hs) >= 2
         THEN LET victim_ip == hs[2][1]
                  c1 == receive_arp(c, victim_ip, BasicAttackerMac,
                                    "spoof attempt (basic)").ctrl
              IN  receive_arp(c1, victim_ip, BasicAttackerMac,
                              "spoof attempt (basic #2)").ctrl
         ELSE c
    ELSE IF r < chance
         THEN receive_arp(c, hs[v][1], a, "random spoof").ctrl
         ELSE receive_arp(c, hs[v][1], hs[v][2], "normal ARP").ctrl

\* a call of one_event on the session, with its record in the history
DriverEvent(s, m, chance, r, v, a) ==
    LET d == one_event(s.ctrl, s.hosts, m, chance, r, v, a)
    IN  [s EXCEPT !.ctrl = d,
                  !.hist = Append(s.hist,
                      [mode |-> m, bod |-> s.ctrl.block_on_detect,
                       n0 |-> Len(s.ctrl.logs), n1 |-> Len(d.logs)])]

\* a Run budget that is the basic one in both modes
Duration_always_basic(m) == BasicDuration

\* line 184
Duration(m) == IF m = "random" THEN RandomDuration ELSE BasicDuration

\* a Step condition that does not look at Run
StepActs_ignores_run(st, rn) == st

\* line 177
StepActs(st, rn) == st /\ ~rn

\* the session state after a stage of the script
SetSession(s) ==
    /\ ctrl' = s.ctrl
    /\ hosts' = s.hosts
    /\ started' = s.started
    /\ session_keys' = s.keys
    /\ hist' = s.hist

\* before the first load: st.session_state is empty (ctrl, hosts and started
\* hold placeholders until "ctrl" is among the keys), the widgets hold the
\* values the page opens with and no button is pressed
Init ==
    /\ ctrl = SimpleController(TRUE)
    /\ hosts = <<>>
    /\ started = FALSE
    /\ session_keys = {}
    /\ mode \in Modes
    /\ hosts_count \in HostCounts
    /\ spoof_chance \in SpoofChances
    /\ block_on_detect \in BOOLEAN
    /\ run = FALSE
    /\ step = FALSE
    /\ reset = FALSE
    /\ pc = "load"
    /\ elapsed = 0
    /\ hist = <<>>

\* lines 68-77: what starts a run of the script.  The first load and a rerun
\* read the widgets as they are, with no button pressed; an interaction of the
\* operator changes one of the widgets or presses buttons.
Widgets ==
    \/ /\ pc \in {"load", "rerun"}
       /\ run' = FALSE /\ step' = FALSE /\ reset' = FALSE
       /\ UNCHANGED <<mode, hosts_count, spoof_chance, block_on_detect>>
    \/ /\ pc = "idle"
       /\ run' = FALSE /\ step' = FALSE /\ reset' = FALSE
       /\ \/ mode' \in Modes /\
             UNCHANGED <<hosts_count, spoof_chance, block_on_detect>>
          \/ hosts_count' \in HostCounts /\
             UNCHANGED <<mode, spoof_chance, block_on_detect>>
          \/ spoof_chance' \in SpoofChances /\
             UNCHANGED <<mode, hosts_count, block_on_detect>>
          \/ block_on_detect' \in BOOLEAN /\
             UNCHANGED <<mode, hosts_count, spoof_chance>>
    \/ /\ pc = "idle"
       /\ run' \in BOOLEAN /\ step' \in BOOLEAN /\ reset' \in BOOLEAN
       /\ run' \/ step' \/ reset'
       /\ UNCHANGED <<mode, hosts_count, spoof_chance, block_on_detect>>

\* lines 68-153: the widgets are read, then session state initialization,
\* checkbox sync and initial pass
RunPrologue ==
    /\ Widgets
    /\ \E macs \in (IF "ctrl" \notin session_keys \/ reset'
                    THEN MacDraws(hosts_count') ELSE {<<>>}) :
          \E s \in {Prologue(Session, reset', block_on_detect', hosts_count',
                              macs)} : SetSession(s)
    /\ pc' = "buttons"
    /\ UNCHANGED elapsed

\* the sessions one call of one_event can lead to; random.choice (lines 168,
\* 173) is called in random mode only, and raises on an empty roster
Events(s, m, chance) ==
    {DriverEvent(s, m, chance, r, v, a) :
        r \in RandomDraws,
        v \in (IF m = "basic" THEN {1} ELSE 1..Len(s.hosts)),
        a \in RandomAttackerMacs}

\* lines 177-180: Step
StepEvent ==
    /\ pc = "buttons"
    /\ StepActs(step, run)
    /\ Len(hist) < MaxEvents
    /\ \E s \in Events(Session, mode, spoof_chance) : SetSession(s)
    /\ pc' = "rerun"
    /\ UNCHANGED <<mode, hosts_count, spoof_chance, block_on_detect, run, step,
                   reset, elapsed>>

\* lines 182-185: Run starts its loop
RunStart ==
    /\ pc = "buttons"
    /\ ~StepActs(step, run)
    /\ run
    /\ elapsed' = 0
    /\ pc' = "run_loop"
    /\ UNCHANGED <<ctrl, hosts, started, session_keys, mode, hosts_count,
                   spoof_chance, block_on_detect, run, step, reset, hist>>

\* lines 186-197: one iteration of the Run loop; tick is the time the
\* iteration takes, the pause of line 197 included
RunIteration ==
    /\ pc = "run_loop"
    /\ elapsed < Duration(mode)
    /\ \E s \in Events(Session, mode, spoof_chance) : SetSession(s)
    /\ \E tick \in 1..MaxTick : elapsed' = elapsed + tick
    /\ UNCHANGED <<mode, hosts_count, spoof_chance, block_on_detect, run, step,
                   reset, pc>>

\* an iteration of the Run loop in a session of fewer than MaxEvents events
RunEvent ==
    /\ Len(hist) < MaxEvents
    /\ RunIteration

\* lines 186, 199: the budget is used up, st.experimental_rerun()
RunEnd ==
    /\ pc = "run_loop"
    /\ ~(elapsed < Duration(mode))
    /\ elapsed' = 0
    /\ pc' = "rerun"
    /\ UNCHANGED <<ctrl, hosts, started, session_keys, mode, hosts_count,
                   spoof_chance, block_on_detect, run, step, reset, hist>>

\* lines 201-202: neither Step nor Run acts, the script ends
ScriptEnd ==
    /\ pc = "buttons"
    /\ ~StepActs(step, run)
    /\ ~run
    /\ pc' = "idle"
    /\ UNCHANGED <<ctrl, hosts, started, session_keys, mode, hosts_count,
                   spoof_chance, block_on_detect, run, step, reset, elapsed,
                   hist>>

Next ==
    \/ RunPrologue
    \/ StepEvent
    \/ RunStart
    \/ RunEvent
    \/ RunEnd
    \/ ScriptEnd

Spec == Init /\ [][Next]_vars

(***************************************************************************)
(* Properties of the controller, checked under SpecCtrl.                   *)
(***************************************************************************)
\* the lines a call appended, the call taking controller c to controller d
Appended(c, d) == SubSeq(d.logs, Len(c.logs) + 1, Len(d.logs))

\* the call left the lines of c in place
KeepsLog(c, d) ==
    /\ Len(d.logs) >= Len(c.logs)
    /\ SubSeq(d.logs, 1, Len(c.logs)) = c.logs

Levels(lines) == [i \in 1..Len(lines) |-> lines[i].lvl]

\* src_mac conflicts with the entry of src_ip and is not blocked
Conflict(c, src_ip, src_mac) ==
    /\ src_mac \notin c.blocked_macs
    /\ src_ip \in DOMAIN c.arp_table
    /\ c.arp_table[src_ip] # src_mac

\* C1: in every reachable controller state, for every network address A with
\* table entry M1 and every unblocked hardware address M2 # M1,
\* receive_arp(A, M2) appends an ALERT line (naming A, M1 and M2), returns it,
\* and leaves the whole table as it was, block_on_detect true or false.
C1_ConflictAlertsKeepsTable ==
    \A A \in ApiIPs, M2 \in ApiMacs :
        Conflict(ctrl, A, M2) =>
            LET r == receive_arp(ctrl, A, M2, "api")
                alert == Line("ALERT", A, ctrl.arp_table[A], M2, "api")
            IN  /\ KeepsLog(ctrl, r.ctrl)
                /\ Len(Appended(ctrl, r.ctrl)) >= 1
                /\ Appended(ctrl, r.ctrl)[1] = alert
                /\ \A i \in 2..Len(Appended(ctrl, r.ctrl)) :
                      Appended(ctrl, r.ctrl)[i].lvl # "ALERT"
                /\ r.ret = alert
                /\ r.ctrl.arp_table = ctrl.arp_table

\* C1 witness: a conflict was processed with auto-block off: the last line is
\* an ALERT, the table still holds the address the ALERT names as the old one
\* and the new address is not blocked.
C1_Witness ==
    /\ Len(ctrl.logs) >= 2
    /\ LET last == ctrl.logs[Len(ctrl.logs)]
       IN  /\ last.lvl = "ALERT"
           /\ last.ip \in DOMAIN ctrl.arp_table
           /\ ctrl.arp_table[last.ip] = last.old
           /\ last.mac # last.old
           /\ last.mac \notin ctrl.blocked_macs

\* the state part of C2: an announcement from a blocked address appends one
\* DROP line and nothing else, and changes neither table nor blocked set
C2_BlockedIsDropped ==
    \A M \in ctrl.blocked_macs : \A ip \in ApiIPs :
        LET r == receive_arp(ctrl, ip, M, "api")
        IN  /\ r.ctrl = [ctrl EXCEPT !.logs =
                  Append(ctrl.logs, Line("DROP", NoVal, NoVal, M, "api"))]
            /\ r.ret = Line("DROP", NoVal, NoVal, M, "api")

\* the step part of C2: no call removes an address from the blocked set
C2_StaysBlocked == ctrl.blocked_macs \subseteq ctrl'.blocked_macs

\* C2: once a hardware address M is in the blocked set it stays there, and
\* every later receive_arp(ip, M), for ip in the table or not, appends exactly
\* one DROP line, no LEARN, ALERT or MITIGATE line, and leaves the table and
\* the blocked set unchanged.
C2_OnceBlockedAlwaysDropped ==
    [](C2_BlockedIsDropped) /\ [][C2_StaysBlocked]_vars

\* C2 witness: an address was blocked, then announced a network address that
\* is not in the table, and the announcement was dropped.
C2_Witness ==
    /\ Len(ctrl.logs) >= 2
    /\ LET last == ctrl.logs[Len(ctrl.logs)]
       IN  /\ last.lvl = "DROP"
           /\ last.mac \in ctrl.blocked_macs
           /\ \E ip \in ApiIPs : ip \notin DOMAIN ctrl.arp_table

\* C4: with block_on_detect true, a conflicting announcement receive_arp(A, M2)
\* from an unblocked M2 appends the ALERT line and then exactly one MITIGATE
\* line and adds M2 to the blocked set; the next announcement from M2, for any
\* network address, appends one DROP line and does not alter the table.
C4_AutoBlockThenDrop ==
    \A A \in ApiIPs, M2 \in ApiMacs :
        (ctrl.block_on_detect /\ Conflict(ctrl, A, M2)) =>
            LET r == receive_arp(ctrl, A, M2, "api")
            IN  /\ KeepsLog(ctrl, r.ctrl)
                /\ Appended(ctrl, r.ctrl) =
                       << Line("ALERT", A, ctrl.arp_table[A], M2, "api"),
                          Line("MITIGATE", NoVal, NoVal, M2, NoVal) >>
                /\ r.ctrl.blocked_macs = ctrl.blocked_macs \cup {M2}
                /\ \A ip \in ApiIPs :
                      LET q == receive_arp(r.ctrl, ip, M2, "next")
                      IN  /\ KeepsLog(r.ctrl, q.ctrl)
                          /\ Appended(r.ctrl, q.ctrl) =
                                 << Line("DROP", NoVal, NoVal, M2, "next") >>
                          /\ q.ctrl.arp_table = r.ctrl.arp_table
                          /\ q.ctrl.arp_table = ctrl.arp_table

\* C4 witness: the log ends with the ALERT and the MITIGATE of one address and
\* the DROP of its next announcement.
C4_Witness ==
    /\ Len(ctrl.logs) >= 4
    /\ LET n == Len(ctrl.logs)
       IN  /\ ctrl.logs[n - 2].lvl = "ALERT"
           /\ ctrl.logs[n - 1].lvl = "MITIGATE"
           /\ ctrl.logs[n].lvl = "DROP"
           /\ ctrl.logs[n - 1].mac = ctrl.logs[n - 2].mac
           /\ ctrl.logs[n].mac = ctrl.logs[n - 2].mac
           /\ ctrl.logs[n].mac \in ctrl.blocked_macs

\* C5: block_mac is idempotent: on a blocked address it returns None, appends
\* nothing and leaves the blocked set and the table unchanged; on any address,
\* calling it twice gives the state that calling it once gives.
C5_BlockMacIdempotent ==
    \A M \in ApiMacs :
        /\ M \in ctrl.blocked_macs =>
              block_mac(ctrl, M) = [ctrl |-> ctrl, ret |-> None]
        /\ LET once == block_mac(ctrl, M)
               twice == block_mac(once.ctrl, M)
           IN  /\ twice.ctrl = once.ctrl
               /\ twice.ret = None
               /\ M \in once.ctrl.blocked_macs

\* C5 witness: an address blocked by a call of block_mac (its MITIGATE line is
\* the first line of the log, so no ALERT led to it), with a line after it.
C5_Witness ==
    /\ Len(ctrl.logs) >= 2
    /\ ctrl.logs[1].lvl = "MITIGATE"
    /\ ctrl.logs[1].mac \in ctrl.blocked_macs
    /\ Cardinality({i \in 1..Len(ctrl.logs) : ctrl.logs[i].lvl = "MITIGATE"}) = 1

\* C6: for an unblocked hardware address M, receive_arp(A, M) with A absent
\* from the table or already mapped to M appends exactly one LEARN line (no
\* ALERT), makes the table map A to M, and leaves every other table entry,
\* the blocked set and block_on_detect unchanged.
C6_LearnOrReaffirm ==
    \A A \in ApiIPs, M \in ApiMacs :
        (/\ M \notin ctrl.blocked_macs
         /\ (A \notin DOMAIN ctrl.arp_table \/ ctrl.arp_table[A] = M)) =>
            LET r == receive_arp(ctrl, A, M, "api")
                learn == Line("LEARN", A, NoVal, M, "api")
            IN  /\ r.ctrl.logs = Append(ctrl.logs, learn)
                /\ r.ret = learn
                /\ DOMAIN r.ctrl.arp_table = DOMAIN ctrl.arp_table \cup {A}
                /\ r.ctrl.arp_table[A] = M
                /\ \A x \in DOMAIN ctrl.arp_table :
                      x # A => r.ctrl.arp_table[x] = ctrl.arp_table[x]
                /\ r.ctrl.blocked_macs = ctrl.blocked_macs
                /\ r.ctrl.block_on_detect = ctrl.block_on_detect

\* C6 witness: an address was learned and then re-affirmed: two LEARN lines
\* for the same pair, the second the last line of the log.
C6_Witness ==
    /\ Len(ctrl.logs) >= 2
    /\ LET n == Len(ctrl.logs)
       IN  /\ ctrl.logs[n].lvl = "LEARN"
           /\ \E i \in 1..(n - 1) :
                 /\ ctrl.logs[i].lvl = "LEARN"
                 /\ ctrl.logs[i].ip = ctrl.logs[n].ip
                 /\ ctrl.logs[i].mac = ctrl.logs[n].mac
           /\ ctrl.arp_table[ctrl.logs[n].ip] = ctrl.logs[n].mac

(***************************************************************************)
(* Properties of the dashboard, checked under Spec.                        *)
(***************************************************************************)
Mitigate(mac) == Line("MITIGATE", NoVal, NoVal, mac, NoVal)

\* C3: in every state reachable through the dashboard, every address in the
\* blocked set has an ALERT line of the current session's log that names it as
\* the newly seen address, with its MITIGATE line right after that ALERT; and
\* every MITIGATE line of the log comes right after an ALERT for its address.
C3_BlockedWasAlerted ==
    /\ \A M \in ctrl.blocked_macs :
          \E i \in 1..(Len(ctrl.logs) - 1) :
              /\ ctrl.logs[i].lvl = "ALERT"
              /\ ctrl.logs[i].mac = M
              /\ ctrl.logs[i + 1] = Mitigate(M)
    /\ \A j \in 1..Len(ctrl.logs) :
          ctrl.logs[j].lvl = "MITIGATE" =>
              /\ j > 1
              /\ ctrl.logs[j - 1].lvl = "ALERT"
              /\ ctrl.logs[j - 1].mac = ctrl.logs[j].mac
              /\ ctrl.logs[j].mac \in ctrl.blocked_macs

\* C3 witness: two addresses are blocked, the basic attacker and a random one.
C3_Witness ==
    /\ pc = "idle"
    /\ BasicAttackerMac \in ctrl.blocked_macs
    /\ Cardinality(ctrl.blocked_macs) = 2

\* the lines event e of the history appended
EventLines(e) == SubSeq(ctrl.logs, e.n0 + 1, e.n1)

\* the basic attacker was blocked before event e
AttackerBlockedBefore(e) ==
    \E j \in 1..e.n0 : ctrl.logs[j] = Mitigate(BasicAttackerMac)

\* C7 as claimed: in every basic-mode step with at least two hosts, the first
\* spoofed announcement produces an ALERT (and a MITIGATE when auto-block is
\* enabled) and the second produces a DROP.
C7_AsClaimed ==
    \A k \in 1..Len(hist) :
        (hist[k].mode = "basic" /\ Len(hosts) >= 2) =>
            LET e == hist[k]
            IN  /\ e.n1 >= e.n0 + 2
                /\ ctrl.logs[e.n0 + 1].lvl = "ALERT"
                /\ e.bod => ctrl.logs[e.n0 + 2].lvl = "MITIGATE"
                /\ ctrl.logs[e.n1].lvl = "DROP"

\* C7 amended: in a basic-mode step with at least two hosts, when the attacker
\* address is not blocked yet and auto-block is enabled the first announcement
\* produces ALERT and MITIGATE and the second DROP; when it is not blocked and
\* auto-block is disabled both produce ALERT; when it is blocked already (the
\* steps after a blocking one) both produce DROP.
C7_BasicStepByCase ==
    \A k \in 1..Len(hist) :
        (hist[k].mode = "basic" /\ Len(hosts) >= 2) =>
            LET e == hist[k]
            IN  Levels(EventLines(e)) =
                    IF AttackerBlockedBefore(e) THEN <<"DROP", "DROP">>
                    ELSE IF e.bod THEN <<"ALERT", "MITIGATE", "DROP">>
                    ELSE <<"ALERT", "ALERT">>

\* C7 witness: a second basic step, taken with the attacker blocked by the
\* first, after a first one taken with auto-block enabled.
C7_Witness ==
    /\ Len(hist) = 2
    /\ hist[1].mode = "basic" /\ hist[1].bod
    /\ hist[2].mode = "basic"
    /\ AttackerBlockedBefore(hist[2])
    /\ Len(hosts) >= 2

\* the session so far: the initial pass, then two basic steps, auto-block
\* enabled at both
TwoBasicSteps ==
    /\ Len(hosts) >= 2
    /\ Len(hist) = 2
    /\ hist[1].mode = "basic" /\ hist[1].bod
    /\ hist[2].mode = "basic" /\ hist[2].bod
    /\ hist[1].n0 = Len(hosts)

\* C8 as claimed: with at least two hosts and block_on_detect true, two basic
\* steps after the initial pass append, in total, one ALERT, one MITIGATE and
\* one DROP, and nothing else.
C8_AsClaimed ==
    TwoBasicSteps =>
        Levels(SubSeq(ctrl.logs, Len(hosts) + 1, Len(ctrl.logs))) =
            <<"ALERT", "MITIGATE", "DROP">>

\* C8 amended: with at least two hosts and block_on_detect true, two basic
\* steps after the initial pass append one ALERT, right after it one MITIGATE,
\* and then three DROPs (one of the first step, two of the second), all for
\* the second host's network address and the attacker address, and nothing
\* else; the victim's table entry stays its own hardware address.
C8_TwoBasicSteps ==
    TwoBasicSteps =>
        LET victim == hosts[2]
            aa == BasicAttackerMac
        IN  /\ SubSeq(ctrl.logs, Len(hosts) + 1, Len(ctrl.logs)) =
                  << Line("ALERT", victim[1], victim[2], aa,
                          "spoof attempt (basic)"),
                     Mitigate(aa),
                     Line("DROP", NoVal, NoVal, aa, "spoof attempt (basic #2)"),
                     Line("DROP", NoVal, NoVal, aa, "spoof attempt (basic)"),
                     Line("DROP", NoVal, NoVal, aa, "spoof attempt (basic #2)") >>
            /\ ctrl.arp_table[victim[1]] = victim[2]
            /\ ctrl.blocked_macs = {aa}

\* C8 witness: the session after the two steps, the script at rest.
C8_Witness == TwoBasicSteps /\ pc = "idle"

\* the line the initial pass logs for host h
InitialLearn(h) == Line("LEARN", h[1], NoVal, h[2], "initial ARP")

\* the table that maps every roster address to its host's hardware address
RosterTable(hs) ==
    [ip \in {hs[i][1] : i \in 1..Len(hs)} |->
        (CHOOSE h \in {hs[i] : i \in 1..Len(hs)} : h[1] = ip)[2]]

\* the script has passed line 153 of a refresh in which Reset is pressed and
\* no event of that refresh has run
AfterReset == reset /\ pc \in {"buttons", "idle"}

\* C9 as claimed: the refresh in which Reset is pressed ends with an empty
\* log, an empty table and an empty blocked set, and with a roster of the
\* configured size.
C9_AsClaimed ==
    (reset /\ pc = "idle") =>
        /\ ctrl.logs = <<>>
        /\ DOMAIN ctrl.arp_table = {}
        /\ ctrl.blocked_macs = {}
        /\ Len(hosts) = hosts_count

\* C9 amended: in a refresh in which Reset is pressed, the session state
\* initialization (lines 80-89) yields an empty log, an empty table, an empty
\* blocked set and a roster of the configured size; the initial pass of the
\* same refresh then announces the roster, so that at the button handling, and
\* at the end of the refresh when neither Step nor Run acts, the log holds
\* one LEARN line per roster host and nothing else, the table maps every
\* roster address to its host's hardware address and the blocked set is empty.
C9_ResetThenInitialPass ==
    /\ \A macs \in MacDraws(hosts_count) :
          LET s == SessionInit(Session, TRUE, block_on_detect, hosts_count, macs)
          IN  /\ s.ctrl.logs = <<>>
              /\ DOMAIN s.ctrl.arp_table = {}
              /\ s.ctrl.blocked_macs = {}
              /\ Len(s.hosts) = hosts_count
              /\ ~s.started
    /\ AfterReset =>
          /\ Len(hosts) = hosts_count
          /\ ctrl.logs = [i \in 1..Len(hosts) |-> InitialLearn(hosts[i])]
          /\ ctrl.arp_table = RosterTable(hosts)
          /\ ctrl.blocked_macs = {}
          /\ started

\* C9 witness: a refresh with Reset pressed has ended, with a roster of three
\* hosts and the three lines of its initial pass in the log.
C9_Witness ==
    /\ reset /\ pc = "idle"
    /\ Len(ctrl.logs) = Len(hosts)
    /\ hosts_count = MinHosts + 1

\* C10: in each session the initial pass runs exactly once, across any number
\* of refreshes: the log starts with one "initial ARP" line per roster host,
\* in roster order, each a LEARN line for the host's own pair, and no other
\* line of the log is an "initial ARP" line, so every announcement of a Step
\* or a Run comes after them.
C10_InitialPassOnce ==
    "ctrl" \in session_keys =>
        /\ Len(ctrl.logs) >= Len(hosts)
        /\ \A i \in 1..Len(hosts) : ctrl.logs[i] = InitialLearn(hosts[i])
        /\ \A j \in (Len(hosts) + 1)..Len(ctrl.logs) :
              ctrl.logs[j].info # "initial ARP"
        /\ \A k \in 1..Len(hist) : hist[k].n0 >= Len(hosts)

\* C10 witness: a session that has seen two events and several refreshes, at
\* rest after a refresh without buttons.
C10_Witness ==
    /\ pc = "idle"
    /\ ~reset
    /\ Len(hist) = 2
    /\ Len(hosts) = MinHosts + 1
    /\ hosts[2][2] = hosts[1][2]

\* a Step or an iteration of Run has called one_event in this step
EventTaken ==
    /\ pc \in {"buttons", "run_loop"}
    /\ Len(hist') = Len(hist) + 1

\* the roster's hardware addresses
RosterMacs(hs) == {hs[i][2] : i \in 1..Len(hs)}

\* every event of the session so far was a random-mode one that took the
\* genuine branch
OnlyGenuineEvents ==
    /\ \A k \in 1..Len(hist) : hist[k].mode = "random"
    /\ \A j \in 1..Len(ctrl.logs) : ctrl.logs[j].info # "random spoof"

\* an event taken in random mode with spoof chance 0 appends one LEARN line,
\* a "normal ARP" of a roster host, and leaves table and blocked set alone
C11_QuietEvent ==
    (EventTaken /\ mode = "random" /\ spoof_chance = 0) =>
        /\ Len(Appended(ctrl, ctrl')) = 1
        /\ \E i \in 1..Len(hosts) :
              Appended(ctrl, ctrl')[1] =
                  Line("LEARN", hosts[i][1], NoVal, hosts[i][2], "normal ARP")
        /\ KeepsLog(ctrl, ctrl')
        /\ ctrl'.arp_table = ctrl.arp_table
        /\ ctrl'.blocked_macs = ctrl.blocked_macs

\* a session whose events all took the genuine branch of random mode has
\* LEARN lines only, an empty blocked set and roster addresses only in its
\* table
C11_QuietSession ==
    ("ctrl" \in session_keys /\ started /\ OnlyGenuineEvents) =>
        /\ \A j \in 1..Len(ctrl.logs) : ctrl.logs[j].lvl = "LEARN"
        /\ ctrl.blocked_macs = {}
        /\ \A ip \in DOMAIN ctrl.arp_table :
              ctrl.arp_table[ip] \in RosterMacs(hosts)

\* C11: with spoof chance 0.0, every random-mode event after the initial pass
\* appends one LEARN line only (never ALERT, MITIGATE or DROP) and changes
\* neither the table nor the blocked set; so a session of such events only has
\* a log of LEARN lines, an empty blocked set and no hardware address outside
\* the roster's in its table.
C11_ZeroChanceOnlyLearns == [](C11_QuietSession) /\ [][C11_QuietEvent]_vars

\* C11 witness: two random-mode Steps at spoof chance 0, the second just taken
\* and a forced refresh pending.
C11_Witness ==
    /\ pc = "rerun"
    /\ mode = "random" /\ spoof_chance = 0
    /\ Len(hist) = 2
    /\ OnlyGenuineEvents
    /\ Len(ctrl.logs) = Len(hosts) + 2
    /\ ctrl.logs[Len(ctrl.logs)].info = "normal ARP"

(***************************************************************************)
(* The dashboard under an operator who keeps pressing Step in random mode  *)
(* with a spoof chance above 0, checked under SpecSteps.  The widgets stay *)
(* as the page opened with them.  A session takes MaxEvents Steps, then    *)
(* the operator presses Reset and goes on in a new session.  The Step of   *)
(* lines 177-180 is split by the branch line 167 takes.                    *)
(***************************************************************************)
InitSteps == Init /\ mode = "random" /\ spoof_chance > 0

\* lines 68-153 of a refresh in which the operator has pressed the buttons
\* given and moved no widget
PressOnly(st, rn, rs) ==
    /\ RunPrologue
    /\ step' = st /\ run' = rn /\ reset' = rs
    /\ UNCHANGED <<mode, hosts_count, spoof_chance, block_on_detect>>

\* lines 68-153 of the first load and of a forced refresh
LoadOrRerun == pc \in {"load", "rerun"} /\ RunPrologue

StepsPressStep ==
    /\ pc = "idle"
    /\ Len(hist) < MaxEvents
    /\ PressOnly(TRUE, FALSE, FALSE)

StepsPressReset ==
    /\ pc = "idle"
    /\ Len(hist) = MaxEvents
    /\ PressOnly(FALSE, FALSE, TRUE)

\* lines 177-180 with random.random() returning one of draws
StepEventOn(draws) ==
    /\ pc = "buttons"
    /\ StepActs(step, run)
    /\ Len(hist) < MaxEvents
    /\ \E s \in {DriverEvent(Session, mode, spoof_chance, r, v, a) :
                    r \in draws, v \in 1..Len(hosts),
                    a \in RandomAttackerMacs} : SetSession(s)
    /\ pc' = "rerun"
    /\ UNCHANGED <<mode, hosts_count, spoof_chance, block_on_detect, run, step,
                   reset, elapsed>>

\* line 167: random.random() < spoof_chance
StepSpoof == StepEventOn({r \in RandomDraws : r < spoof_chance})

\* line 172: the else branch
StepGenuine == StepEventOn({r \in RandomDraws : ~(r < spoof_chance)})

NextSteps ==
    \/ LoadOrRerun
    \/ StepsPressStep
    \/ StepsPressReset
    \/ StepSpoof
    \/ StepGenuine
    \/ ScriptEnd

\* the script and the operator go on, and random.random() does not stay at or
\* above a positive spoof chance for ever
SpecSteps ==
    /\ InitSteps
    /\ [][NextSteps]_vars
    /\ WF_vars(NextSteps)
    /\ SF_vars(StepSpoof)

\* a session at line 177 of the refresh that initialized it
FreshSession ==
    /\ pc = "buttons"
    /\ started
    /\ hist = <<>>
    /\ Len(ctrl.logs) = Len(hosts)

\* the log holds an ALERT of a random spoof
RandomAlerted ==
    \E j \in 1..Len(ctrl.logs) :
        /\ ctrl.logs[j].lvl = "ALERT"
        /\ ctrl.logs[j].info = "random spoof"

\* C12: with the spoof chance fixed above 0 and random-mode Steps repeated
\* for ever, from every freshly initialized session on an ALERT line is
\* eventually appended to the event log, the spoof branch being taken
\* infinitely often where it is possible infinitely often.
C12_EventuallyAlert == FreshSession ~> RandomAlerted

\* C12 witness: a Step has just appended the ALERT of a random spoof as the
\* second event of its session, after a genuine one.
C12_Witness ==
    /\ pc = "rerun"
    /\ mode = "random" /\ spoof_chance > 0
    /\ Len(hist) = 2
    /\ ctrl.logs[hist[1].n1].info = "normal ARP"
    /\ ctrl.logs[hist[2].n0 + 1].lvl = "ALERT"
    /\ ctrl.logs[hist[2].n0 + 1].info = "random spoof"

\* the controller of the session has the setting of the checkbox, as read by
\* the refresh that is running or has run last
C13_Synced == "ctrl" \in session_keys => ctrl.block_on_detect = block_on_detect

\* an event runs under the checkbox value of its refresh: with the checkbox
\* off it appends no MITIGATE and leaves the blocked set alone, with the
\* checkbox on each of its ALERT lines is followed by the MITIGATE of the
\* address, which is blocked from then on
C13_EventFollowsCheckbox ==
    EventTaken =>
        LET new == Appended(ctrl, ctrl')
        IN  /\ hist'[Len(hist')].bod = block_on_detect
            /\ ~block_on_detect =>
                  /\ \A i \in 1..Len(new) : new[i].lvl # "MITIGATE"
                  /\ ctrl'.blocked_macs = ctrl.blocked_macs
            /\ block_on_detect =>
                  \A i \in 1..Len(new) :
                      new[i].lvl = "ALERT" =>
                          /\ i < Len(new)
                          /\ new[i + 1] = Mitigate(new[i].mac)
                          /\ new[i].mac \notin ctrl.blocked_macs
                          /\ new[i].mac \in ctrl'.blocked_macs

\* C13: whenever an announcement is processed during a refresh, the live
\* controller's block_on_detect is the value of the auto-block checkbox in
\* that refresh, with no Reset needed: a conflict detected with the checkbox
\* off appends an ALERT only (no MITIGATE, blocked set unchanged), and once
\* the checkbox is on the next detected conflict blocks the address.
C13_CheckboxTakesEffect ==
    [](C13_Synced) /\ [][C13_EventFollowsCheckbox]_vars

\* C13 witness: within one session, with no Reset in between, a first event
\* with the checkbox off has alerted without blocking, the checkbox has been
\* switched on, and the second event has alerted and blocked the address.
C13_Witness ==
    /\ Len(hist) = 2
    /\ ~hist[1].bod /\ hist[2].bod
    /\ ctrl.logs[hist[1].n0 + 1].lvl = "ALERT"
    /\ \A j \in 1..hist[1].n1 : ctrl.logs[j].lvl # "MITIGATE"
    /\ ctrl.logs[hist[2].n0 + 1].lvl = "ALERT"
    /\ ctrl.logs[hist[2].n0 + 2] = Mitigate(ctrl.logs[hist[1].n0 + 1].mac)
    /\ ctrl.block_on_detect

(***************************************************************************)
(* The topology panel, lines 120-145.  A graph is its set of node labels   *)
(* and its set of edges, an edge being the set of the two labels it joins. *)
(***************************************************************************)
\* line 128: f"{ip}\n{mac}"
LearnedLabel(ip, mac) == ip \o "\n" \o mac

\* line 134: f"{ip}\n(unknown)"
UnknownLabel(ip) == ip \o "\n(unknown)"

\* a draw_graph that shows the table's entries only
draw_graph_table_only(arp_table, blocked, hs) ==
    LET learned == {LearnedLabel(ip, arp_table[ip]) : ip \in DOMAIN arp_table}
    IN  [nodes |-> {"controller"} \cup learned,
         edges |-> {{"controller", n} : n \in learned}]

\* lines 123-136: the graph draw_graph builds, hs being
\* st.session_state.hosts
draw_graph(arp_table, blocked, hs) ==
    LET learned == {LearnedLabel(ip, arp_table[ip]) : ip \in DOMAIN arp_table}
        unknown == {UnknownLabel(hs[i][1]) :
                        i \in {j \in 1..Len(hs) :
                                  hs[j][1] \notin DOMAIN arp_table}}
    IN  [nodes |-> {"controller"} \cup learned \cup unknown,
         edges |-> {{"controller", n} : n \in learned \cup unknown}]

(***************************************************************************)
(* The dashboard with a roster of fewer than two hosts, checked under      *)
(* SpecFew.  The slider of line 71 starts at 2, so these are sessions of   *)
(* the script with a smaller hosts_count; the script is the same.  With an *)
(* empty roster random.choice raises in random mode, which ends the run of *)
(* the script.                                                             *)
(***************************************************************************)
FewHostCounts == {0, 1}

InitFew ==
    /\ ctrl = SimpleController(TRUE)
    /\ hosts = <<>>
    /\ started = FALSE
    /\ session_keys = {}
    /\ mode \in Modes
    /\ hosts_count \in FewHostCounts
    /\ spoof_chance \in SpoofChances
    /\ block_on_detect \in BOOLEAN
    /\ run = FALSE
    /\ step = FALSE
    /\ reset = FALSE
    /\ pc = "load"
    /\ elapsed = 0
    /\ hist = <<>>

\* lines 68-153 with the number of hosts left alone
FewRefresh == RunPrologue /\ hosts_count' = hosts_count

\* lines 168, 173: random.choice raises IndexError on an empty roster; the
\* script stops there and the page waits for the operator
ScriptError ==
    /\ \/ pc = "buttons" /\ StepActs(step, run)
       \/ pc = "run_loop" /\ elapsed < Duration(mode)
    /\ mode = "random"
    /\ hosts = <<>>
    /\ pc' = "idle"
    /\ elapsed' = 0
    /\ UNCHANGED <<ctrl, hosts, started, session_keys, mode, hosts_count,
                   spoof_chance, block_on_detect, run, step, reset, hist>>

NextFew ==
    \/ FewRefresh
    \/ StepEvent
    \/ RunStart
    \/ RunEvent
    \/ RunEnd
    \/ ScriptEnd
    \/ ScriptError

SpecFew == InitFew /\ [][NextFew]_vars

\* C14: with one configured host, and with none, a basic-mode step appends no
\* log line and leaves the table and the blocked set as they are, without an
\* error: at line 177 of a refresh in which Step acts in basic mode, the one
\* outcome of one_event is the controller and the roster as they are; and
\* every basic-mode event of the session so far appended nothing.
C14_BasicStepFewHosts ==
    Len(hosts) < 2 =>
        /\ (pc = "buttons" /\ StepActs(step, run) /\ mode = "basic") =>
              /\ Events(Session, mode, spoof_chance) # {}
              /\ \A s \in Events(Session, mode, spoof_chance) :
                    /\ s.ctrl = ctrl
                    /\ s.hosts = hosts
                    /\ s.started = started
        /\ \A k \in 1..Len(hist) :
              hist[k].mode = "basic" => hist[k].n1 = hist[k].n0

\* C14 witness: a session of one host in which a random spoof was blocked and
\* a basic-mode Step has then run, a forced refresh pending.
C14_Witness ==
    /\ Len(hosts) = 1
    /\ pc = "rerun"
    /\ mode = "basic"
    /\ Len(hist) = 2
    /\ hist[1].mode = "random" /\ hist[2].mode = "basic"
    /\ ctrl.blocked_macs # {}
    /\ Len(ctrl.logs) = hist[1].n1

\* what the script does from line 177 on, by the buttons of the refresh
C15_ButtonPaths ==
    /\ (pc = "buttons" /\ step /\ ~run) =>
          /\ Len(hist') = Len(hist) + 1
          /\ SubSeq(hist', 1, Len(hist)) = hist
          /\ hist'[Len(hist')].mode = mode
          /\ pc' = "rerun"
    /\ (pc = "buttons" /\ step /\ run) =>
          /\ hist' = hist
          /\ ctrl' = ctrl
          /\ pc' = "run_loop"
    /\ (pc = "buttons" /\ ~step /\ ~run) =>
          /\ hist' = hist
          /\ ctrl' = ctrl
          /\ pc' = "idle"
    /\ (pc = "run_loop" /\ hist' # hist) =>
          /\ run
          /\ Len(hist') = Len(hist) + 1
          /\ pc' = "run_loop"
    /\ pc = "rerun" =>
          /\ pc' = "buttons"
          /\ ~step' /\ ~run' /\ ~reset'
          /\ hist' = hist

\* the loop of lines 186-197 is entered with Run pressed only
C15_LoopNeedsRun == pc = "run_loop" => run

\* C15: in a refresh where only Step is pressed, exactly one call of one_event
\* for the selected mode is executed and a refresh is forced, in which no
\* button is pressed; in a refresh where Run is pressed together with Step,
\* the Step path executes no event and the Run loop is entered; so at most one
\* of the two paths acts in a refresh.
C15_StepXorRun == [](C15_LoopNeedsRun) /\ [][C15_ButtonPaths]_vars

\* C15 witness: Run and Step were pressed together, the Step path was skipped
\* and the Run loop has executed the first event of the session.
C15_Witness ==
    /\ pc = "run_loop"
    /\ step /\ run
    /\ Len(hist) = 1
    /\ elapsed > 0

(***************************************************************************)
(* The dashboard under an operator who presses Run in a new session and    *)
(* Reset after the burst, checked under SpecRun.  The loop of lines        *)
(* 186-197 runs for as many iterations as its budget admits.  The script   *)
(* goes on executing, and the clock advances by at least one unit in       *)
(* every iteration.                                                        *)
(***************************************************************************)
\* the page opens with the smallest roster
InitRun == Init /\ hosts_count = MinHosts

RunPressRun ==
    /\ pc = "idle"
    /\ hist = <<>>
    /\ PressOnly(FALSE, TRUE, FALSE)

RunPressReset ==
    /\ pc = "idle"
    /\ hist # <<>>
    /\ PressOnly(FALSE, FALSE, TRUE)

NextRun ==
    \/ LoadOrRerun
    \/ RunPressRun
    \/ RunPressReset
    \/ RunStart
    \/ RunIteration
    \/ RunEnd
    \/ ScriptEnd

SpecRun ==
    /\ InitRun
    /\ [][NextRun]_vars
    /\ WF_vars(RunStart)
    /\ WF_vars(RunIteration)
    /\ WF_vars(RunEnd)

\* the time budget of a burst
C16_Budget == IF mode = "basic" THEN 2 ELSE 6

\* Run is pressed and the script is at line 182
BurstPending == pc = "buttons" /\ run /\ ~StepActs(step, run)

\* in a burst the first event is started at elapsed time 0, and the events
\* are no more than the budget admits
C16_BurstBounded ==
    pc = "run_loop" =>
        /\ run
        /\ (hist = <<>>) <=> (elapsed = 0)
        /\ Len(hist) <= C16_Budget
        /\ elapsed < C16_Budget + MaxTick

\* the loop starts an event only while the elapsed time is below the budget,
\* one event at a time; it is left only with the budget used up and at least
\* one event executed, for a forced refresh
C16_LoopSteps ==
    pc = "run_loop" =>
        /\ hist' # hist =>
              /\ elapsed < C16_Budget
              /\ Len(hist') = Len(hist) + 1
              /\ elapsed' > elapsed
              /\ pc' = "run_loop"
        /\ elapsed >= C16_Budget => (hist' = hist /\ pc' = "rerun")
        /\ pc' # "run_loop" =>
              /\ pc' = "rerun"
              /\ elapsed >= C16_Budget
              /\ Len(hist) >= 1
              /\ ctrl' = ctrl

\* C16: a Run burst terminates when the clock advances: it executes at least
\* one event, starts no event once the elapsed time has reached the budget (2
\* in basic mode, 6 in random mode), and then forces a refresh.
C16_RunTerminates ==
    /\ [](C16_BurstBounded)
    /\ [][C16_LoopSteps]_vars
    /\ (BurstPending ~> (pc = "rerun" /\ hist # <<>>))

\* C16 witness: a random-mode burst has ended after six events, one per unit
\* of time, and the forced refresh is pending.
C16_Witness ==
    /\ pc = "rerun"
    /\ run
    /\ mode = "random"
    /\ Len(hist) = 6
    /\ ctrl.blocked_macs # {}

\* the node of host h in a graph drawn from arp_table
HostNode(arp_table, h) ==
    IF h[1] \in DOMAIN arp_table
    THEN LearnedLabel(h[1], arp_table[h[1]])
    ELSE UnknownLabel(h[1])

\* the graph of a session has the controller, one node per roster host and
\* the edges from the controller to them, and nothing else
OneNodePerHost(c, hs) ==
    LET G == draw_graph(c.arp_table, c.blocked_macs, hs)
        hostNodes == {HostNode(c.arp_table, hs[i]) : i \in 1..Len(hs)}
    IN  /\ "controller" \in G.nodes
        /\ G.nodes \ {"controller"} = hostNodes
        /\ Cardinality(G.nodes) = Len(hs) + 1
        /\ \A i \in 1..Len(hs) :
              ~(/\ UnknownLabel(hs[i][1]) \in G.nodes
                /\ \E mac \in ApiMacs \cup RosterMacs(hs) \cup RandomAttackerMacs :
                      LearnedLabel(hs[i][1], mac) \in G.nodes)
        /\ G.edges = {{"controller", n} : n \in hostNodes}
        /\ Cardinality(G.edges) = Len(hs)

\* C17: in every session state the graph built by draw_graph has exactly one
\* node per roster host (the learned one if the host's network address is in
\* the table, the "(unknown)" one otherwise, never both), the controller node
\* and no other node, and an edge from the controller to every host node.
\* The states are those the script is in when it ends or handles its buttons,
\* and the state at line 144 of a refresh that initializes the session, where
\* the panel is drawn before the initial pass.
C17_OneNodePerHost ==
    /\ "ctrl" \in session_keys => OneNodePerHost(ctrl, hosts)
    /\ \A macs \in MacDraws(hosts_count) :
          LET s == SyncCheckbox(SessionInit(Session, TRUE, block_on_detect,
                                            hosts_count, macs),
                                block_on_detect)
          IN  /\ OneNodePerHost(s.ctrl, s.hosts)
              /\ UnknownLabel(IP(1)) \in
                    draw_graph(s.ctrl.arp_table, s.ctrl.blocked_macs,
                               s.hosts).nodes

\* C17 witness: a session of three hosts, two of them with the same hardware
\* address, after a basic-mode event; its graph has four nodes.
C17_Witness ==
    /\ "ctrl" \in session_keys
    /\ Len(hosts) = MinHosts + 1
    /\ hosts[1][2] = hosts[2][2]
    /\ Len(hist) >= 1
    /\ LearnedLabel(IP(2), hosts[2][2]) \in
          draw_graph(ctrl.arp_table, ctrl.blocked_macs, hosts).nodes
    /\ Cardinality(draw_graph(ctrl.arp_table, ctrl.blocked_macs,
                              hosts).nodes) = 4

\* the refresh of this step is one in which Reset is pressed, or the first
\* load: session state initialization builds a new controller
SessionStarts == pc \in {"load", "idle"} /\ ("ctrl" \notin session_keys \/ reset')

\* a call of receive_arp or of block_mac on the session's controller keeps
\* the log's lines and appends at most two
C18_CallsAppend ==
    "ctrl" \in session_keys =>
        \A mac \in ApiMacs \cup RosterMacs(hosts) \cup RandomAttackerMacs :
            /\ KeepsLog(ctrl, block_mac(ctrl, mac).ctrl)
            /\ \A i \in 1..Len(hosts) :
                  LET d == receive_arp(ctrl, hosts[i][1], mac, "normal ARP").ctrl
                  IN  /\ KeepsLog(ctrl, d)
                      /\ Len(d.logs) \in {Len(ctrl.logs) + 1, Len(ctrl.logs) + 2}

\* every step of the script within a session keeps the log's lines; the log
\* is emptied only where a session starts, and there the initial pass of the
\* same refresh writes its lines
C18_StepsAppend ==
    /\ ~SessionStarts => KeepsLog(ctrl, ctrl')
    /\ ~KeepsLog(ctrl, ctrl') =>
          /\ pc = "idle" /\ reset'
          /\ hist' = <<>>
          /\ Len(ctrl'.logs) = Len(hosts')

\* C18: within a session the event log is append-only: after every operation
\* (receive_arp, block_mac, Step, Run, a refresh without Reset) the log before
\* is a prefix of the log after, so its length never decreases and no line is
\* changed or removed; only Reset empties it.
C18_AppendOnly == [](C18_CallsAppend) /\ [][C18_StepsAppend]_vars

\* C18 witness: a session whose log has grown by a Step and a Run iteration
\* to the lines of the initial pass and five more, with auto-block switched
\* on in between.
C18_Witness ==
    /\ pc = "run_loop"
    /\ ~reset
    /\ Len(hist) = 2
    /\ Len(hosts) = MinHosts
    /\ ~hist[1].bod /\ hist[2].bod
    /\ Len(ctrl.logs) = Len(hosts) + 5

(***************************************************************************)
(* random_mac, lines 59-62, checked under SpecMac.  An address is the      *)
(* sequence of its colon-separated groups, so that prefix + ":" + rest is  *)
(* the concatenation of the groups of prefix and of rest.  No prefix       *)
(* (None) is the empty sequence.  hist holds the call made: its prefix and *)
(* the address returned.                                                   *)
(***************************************************************************)
HexDigits ==
    <<"0", "1", "2", "3", "4", "5", "6", "7", "8", "9", "a", "b", "c", "d",
      "e", "f">>

\* "%02x" % b
Hex2(b) == HexDigits[(b \div 16) + 1] \o HexDigits[(b % 16) + 1]

\* the values of random.randint(0, 255) explored
MacBytes == {0, 127, 255}

\* the prefixes explored: none, that of the hosts, that of the random
\* attacker
MacPrefixes == {<<>>, <<"02", "00">>, <<"de", "ad", "be", "ef">>}

\* random_mac, rnd[i] being the i-th value random.randint returns
random_mac(prefix, rnd) ==
    IF prefix # <<>>
    THEN prefix \o [i \in 1..4 |-> Hex2(rnd[i])]
    ELSE [i \in 1..6 |-> Hex2(rnd[i])]

InitMac ==
    /\ ctrl = SimpleController(TRUE)
    /\ hosts = <<>>
    /\ started = FALSE
    /\ session_keys = {}
    /\ mode = "basic"
    /\ hosts_count = MinHosts
    /\ spoof_chance = 0
    /\ block_on_detect = TRUE
    /\ run = FALSE
    /\ step = FALSE
    /\ reset = FALSE
    /\ pc = "mac"
    /\ elapsed = 0
    /\ hist = <<>>

\* one call of random_mac
MacCall ==
    /\ pc = "mac"
    /\ hist = <<>>
    /\ \E prefix \in MacPrefixes, rnd \in [1..6 -> MacBytes] :
          hist' = <<[prefix |-> prefix, mac |-> random_mac(prefix, rnd)]>>
    /\ UNCHANGED <<ctrl, hosts, started, session_keys, mode, hosts_count,
                   spoof_chance, block_on_detect, run, step, reset, pc,
                   elapsed>>

NextMac == MacCall

SpecMac == InitMac /\ [][NextMac]_vars

\* C19 as claimed: random_mac returns an address of exactly six
\* colon-separated groups for every call, with or without a prefix; with
\* prefix 02:00, and with prefix de:ad:be:ef, where two random groups follow
\* the four of the prefix.
C19_AsClaimed ==
    \A k \in 1..Len(hist) :
        /\ Len(hist[k].mac) = 6
        /\ hist[k].prefix = <<"de", "ad", "be", "ef">> =>
              SubSeq(hist[k].mac, 1, 4) = hist[k].prefix

\* C19, the failing call: random_mac("de:ad:be:ef") has returned an address
\* of eight groups, the prefix and four random ones.
C19_Witness ==
    /\ hist # <<>>
    /\ hist[1].prefix = <<"de", "ad", "be", "ef">>
    /\ hist[1].mac = <<"de", "ad", "be", "ef", "00", "7f", "ff", "00">>

\* C20: in every state after a session's initial pass, whatever Steps, Runs,
\* mode changes and auto-block toggles have come since, the table is the
\* roster (every roster network address maps to its host's own hardware
\* address, and there is no other key), no roster host's hardware address is
\* blocked, no DROP line of the log names one, and an announcement of any
\* host's own pair would be answered with a LEARN line and leave the table
\* and the blocked set as they are.
C20_RosterKept ==
    ("ctrl" \in session_keys /\ started) =>
        /\ ctrl.arp_table = RosterTable(hosts)
        /\ DOMAIN ctrl.arp_table = {IP(i) : i \in 1..Len(hosts)}
        /\ ctrl.blocked_macs \cap RosterMacs(hosts) = {}
        /\ \A j \in 1..Len(ctrl.logs) :
              ctrl.logs[j].lvl = "DROP" =>
                  ctrl.logs[j].mac \notin RosterMacs(hosts)
        /\ \A i \in 1..Len(hosts) :
              LET got == receive_arp(ctrl, hosts[i][1], hosts[i][2],
                                     "normal ARP")
              IN  /\ got.ret.lvl = "LEARN"
                  /\ got.ctrl.arp_table = ctrl.arp_table
                  /\ got.ctrl.blocked_macs = ctrl.blocked_macs

\* C20 witness: a session of three hosts in which a basic-mode event and a
\* random spoof have each had their attacker blocked, and a forced refresh is
\* pending.
C20_Witness ==
    /\ pc = "rerun"
    /\ started
    /\ Len(hosts) = MinHosts + 1
    /\ Len(hist) = 2
    /\ hist[1].mode = "basic" /\ hist[2].mode = "random"
    /\ ctrl.blocked_macs = {BasicAttackerMac} \cup RandomAttackerMacs
    /\ ctrl.logs[Len(ctrl.logs)].lvl = "MITIGATE"

====
